---- MODULE Spec2Model ----
(***************************************************************************)
(* Model of serverless-plugin-datadog: src/layer.ts (findHandlers,         *)
(* applyLayers), src/util.ts (getHandlerPath) and src/env.ts               *)
(* (setEnvConfiguration).                                                  *)
(*                                                                         *)
(* JavaScript strings that the code takes apart (handler references, file  *)
(* paths) are sequences of one-character strings; strings that are only    *)
(* compared (runtime names, layer identifiers, region names, plugin names) *)
(* are TLA+ strings.  The JavaScript value undefined is Undefined.         *)
(***************************************************************************)
EXTENDS Integers, Sequences, FiniteSets, TLC

VARIABLES
    \* ---- findHandlers (layer.ts:48-90) ----
    functions,          \* Object.entries(service.functions): Seq of [name, handler, runtime]
    plugins,            \* service.plugins: [present, list]
    defaultRuntime,     \* argument defaultRuntime
    defaultNodeRuntime, \* argument defaultNodeRuntime (the forced dialect)
    files,              \* the paths for which fs.existsSync answers true
    found,              \* the array findHandlers returned
    findCalled,         \* TRUE once findHandlers has returned
    \* ---- applyLayers (layer.ts:92-125) ----
    region,             \* argument region
    layers,             \* argument layers: own regions -> (own runtime names -> layer identifier)
    handlers,           \* argument handlers: Seq of [type, runtime, handler], handler a descriptor
    descLayers,         \* descriptor -> reference of the array in its layers field, NoLayers if absent
    heap,               \* array reference -> elements of the array
    old,                \* LayerLists just before the most recent applyLayers call
    applied,            \* number of applyLayers calls that have returned
    \* ---- setEnvConfiguration (env.ts:42-64) ----
    environment,        \* service.provider.environment: [defined, vars]
    config,             \* argument config of the most recent call
    envOld,             \* environment just before the most recent call
    envCalled           \* TRUE once setEnvConfiguration has returned

vars == <<functions, plugins, defaultRuntime, defaultNodeRuntime, files, found, findCalled,
          region, layers, handlers, descLayers, heap, old, applied,
          environment, config, envOld, envCalled>>

findVars == <<functions, plugins, defaultRuntime, defaultNodeRuntime, files, found, findCalled>>
applyVars == <<region, layers, handlers, descLayers, heap, old, applied>>
envVars == <<environment, config, envOld, envCalled>>

\* the JavaScript value undefined, where a string is expected
Undefined == "<undefined>"

(***************************************************************************)
(* Bounds of the model.                                                    *)
(***************************************************************************)
MaxFuncs == 2       \* functions of a service
MaxHandlers == 2    \* handler records passed to applyLayers
MaxCalls == 2       \* consecutive applyLayers calls with the same arguments

(***************************************************************************)
(* Generic sequence helpers.                                               *)
(***************************************************************************)
Range(s) == {s[i] : i \in 1..Len(s)}

SeqsUpTo(S, n) == UNION {[1..k -> S] : k \in 0..n}

(***************************************************************************)
(* String.prototype.split(".") and Array.prototype.join("."), on strings   *)
(* as sequences of characters.                                             *)
(***************************************************************************)
RECURSIVE SplitFrom(_, _, _)
SplitFrom(s, i, cur) ==
    IF i > Len(s) THEN <<cur>>
    ELSE IF s[i] = "." THEN <<cur>> \o SplitFrom(s, i + 1, <<>>)
    ELSE SplitFrom(s, i + 1, Append(cur, s[i]))

Split(s) == SplitFrom(s, 1, <<>>)

RECURSIVE Join(_)
Join(parts) ==
    IF Len(parts) = 0 THEN <<>>
    ELSE IF Len(parts) = 1 THEN parts[1]
    ELSE parts[1] \o <<".">> \o Join(Tail(parts))

(***************************************************************************)
(* Property lookup on plain JavaScript objects.  `key in obj` and          *)
(* `obj[key]` consult the object's own properties and then its prototype   *)
(* chain; an object literal (runtimeLookup, a parsed layers table) has     *)
(* Object.prototype as prototype, whose properties include toString.       *)
(* ObjectPrototypeKeys lists the inherited property names that occur among *)
(* the inputs of the model.                                                *)
(***************************************************************************)
ObjectPrototypeKeys == {"toString"}

ObjectPrototypeToString == "[Function: Object.prototype.toString]"
FunctionPrototypeToString == "[Function: Function.prototype.toString]"

\* key in obj, for an object literal with own properties `own`
HasProperty(own, key) == key \in DOMAIN own \/ key \in ObjectPrototypeKeys

\* obj[key], for an object literal with own properties `own` (string-valued)
GetProperty(own, key) ==
    IF key \in DOMAIN own THEN own[key]
    ELSE IF key \in ObjectPrototypeKeys THEN ObjectPrototypeToString
    ELSE Undefined

(***************************************************************************)
(* layer.ts:13-19 and 38-46.                                               *)
(***************************************************************************)
NODE == "NODE"
NODE_TS == "NODE_TS"
NODE_ES6 == "NODE_ES6"
PYTHON == "PYTHON"
UNSUPPORTED == "UNSUPPORTED"

RuntimeType == {NODE, NODE_TS, NODE_ES6, PYTHON, UNSUPPORTED}

runtimeLookup ==
    ("nodejs10.x" :> NODE) @@ ("nodejs12.x" :> NODE) @@ ("nodejs8.10" :> NODE) @@
    ("python2.7" :> PYTHON) @@ ("python3.6" :> PYTHON) @@
    ("python3.7" :> PYTHON) @@ ("python3.8" :> PYTHON)

\* Faulty variant of getHandlerPath: the length test is off by one, so a
\* reference without a method suffix is accepted.
getHandlerPathOffByOne(handlerInfo) ==
    LET parts == Split(handlerInfo.handler.handler)
    IN  IF Len(parts) < 1
        THEN [defined |-> FALSE, method |-> <<>>, filename |-> <<>>]
        ELSE [defined |-> TRUE,
              method |-> parts[Len(parts)],
              filename |-> Join(SubSeq(parts, 1, Len(parts) - 1))]

(***************************************************************************)
(* util.ts:37-46 getHandlerPath.  The result is [defined, method,          *)
(* filename]; defined = FALSE is the bare `return`.                        *)
(***************************************************************************)
getHandlerPath(handlerInfo) ==
    LET handlerfile == handlerInfo.handler.handler
        parts == Split(handlerfile)
    IN  IF Len(parts) < 2
        THEN [defined |-> FALSE, method |-> <<>>, filename |-> <<>>]
        ELSE [defined |-> TRUE,
              method |-> parts[Len(parts)],
              filename |-> Join(SubSeq(parts, 1, Len(parts) - 1))]

\* Faulty variant of hasWebpackPlugin: only the first plugin is looked at.
hasWebpackPluginFirstOnly(servicePlugins) ==
    /\ servicePlugins.present
    /\ Len(servicePlugins.list) > 0
    /\ servicePlugins.list[1] = "serverless-webpack"

(***************************************************************************)
(* layer.ts:127-133 hasWebpackPlugin.  service.plugins is                  *)
(* [present, list]; present = FALSE is undefined.                          *)
(***************************************************************************)
hasWebpackPlugin(servicePlugins) ==
    IF ~servicePlugins.present THEN FALSE
    ELSE \E i \in 1..Len(servicePlugins.list) : servicePlugins.list[i] = "serverless-webpack"

(***************************************************************************)
(* fs.existsSync and the template strings of layer.ts:71-77.               *)
(***************************************************************************)
ExtEsJs == <<".", "e", "s", ".", "j", "s">>
ExtMjs == <<".", "m", "j", "s">>
ExtTs == <<".", "t", "s">>

ProbePath(filename, ext) == <<".", "/">> \o filename \o ext

existsSync(fs, path) == path \in fs

(***************************************************************************)
(* layer.ts:56-88: the callback of .map, for one entry of                  *)
(* Object.entries(funcs).  The result is a sequence holding the            *)
(* HandlerInfo, or the empty sequence where the callback returns           *)
(* undefined (which .filter of line 89 drops).                             *)
(***************************************************************************)
\* Faulty variant of NodeType: the .ts probe comes first, so an ES6 indicator
\* overrides it.
NodeTypeEs6Last(handlerPath, servicePlugins, fs, dNodeRuntime) ==
    IF dNodeRuntime = Undefined
    THEN LET t1 == IF existsSync(fs, ProbePath(handlerPath.filename, ExtTs)) THEN NODE_TS ELSE NODE
         IN  IF existsSync(fs, ProbePath(handlerPath.filename, ExtEsJs))
                \/ existsSync(fs, ProbePath(handlerPath.filename, ExtMjs))
                \/ hasWebpackPlugin(servicePlugins)
             THEN NODE_ES6 ELSE t1
    ELSE dNodeRuntime

\* Faulty variant of NodeType: the probes run even when a dialect is forced,
\* and the forced dialect only replaces a plain NODE result.
NodeTypeProbeFirst(handlerPath, servicePlugins, fs, dNodeRuntime) ==
    LET es6 == existsSync(fs, ProbePath(handlerPath.filename, ExtEsJs))
               \/ existsSync(fs, ProbePath(handlerPath.filename, ExtMjs))
               \/ hasWebpackPlugin(servicePlugins)
        t1 == IF es6 THEN NODE_ES6 ELSE NODE
        t2 == IF existsSync(fs, ProbePath(handlerPath.filename, ExtTs)) THEN NODE_TS ELSE t1
    IN  IF dNodeRuntime # Undefined /\ t2 = NODE THEN dNodeRuntime ELSE t2

NodeType(handlerPath, servicePlugins, fs, dNodeRuntime) ==
    IF dNodeRuntime = Undefined
    THEN LET es6 == existsSync(fs, ProbePath(handlerPath.filename, ExtEsJs))
                    \/ existsSync(fs, ProbePath(handlerPath.filename, ExtMjs))
                    \/ hasWebpackPlugin(servicePlugins)
             t1 == IF es6 THEN NODE_ES6 ELSE NODE
         IN  IF existsSync(fs, ProbePath(handlerPath.filename, ExtTs)) THEN NODE_TS ELSE t1
    ELSE dNodeRuntime

MapCallback(entry, servicePlugins, fs, dRuntime, dNodeRuntime) ==
    LET handler == [handler |-> entry.handler, runtime |-> entry.runtime]
        runtime == IF entry.runtime = Undefined THEN dRuntime ELSE entry.runtime
    IN  IF runtime # Undefined /\ HasProperty(runtimeLookup, runtime)
        THEN LET handlerInfo == [type |-> GetProperty(runtimeLookup, runtime),
                                 runtime |-> runtime, name |-> entry.name, handler |-> handler]
             IN  IF handlerInfo.type = NODE
                 THEN LET handlerPath == getHandlerPath(handlerInfo)
                      IN  IF ~handlerPath.defined THEN <<>>
                          ELSE <<[handlerInfo EXCEPT
                                    !.type = NodeType(handlerPath, servicePlugins, fs, dNodeRuntime)]>>
                 ELSE <<handlerInfo>>
        ELSE <<[type |-> UNSUPPORTED, runtime |-> runtime, name |-> entry.name, handler |-> handler]>>

RECURSIVE MapFilter(_, _, _, _, _)
MapFilter(entries, servicePlugins, fs, dRuntime, dNodeRuntime) ==
    IF Len(entries) = 0 THEN <<>>
    ELSE MapCallback(Head(entries), servicePlugins, fs, dRuntime, dNodeRuntime)
         \o MapFilter(Tail(entries), servicePlugins, fs, dRuntime, dNodeRuntime)

\* layer.ts:48-90
findHandlers(entries, servicePlugins, fs, dRuntime, dNodeRuntime) ==
    MapFilter(entries, servicePlugins, fs, dRuntime, dNodeRuntime)

(***************************************************************************)
(* applyLayers, layer.ts:92-125.                                           *)
(*                                                                         *)
(* HandlerInfo.handler is a reference to a function descriptor, and the    *)
(* descriptor's layers field is a reference to an array: getLayers returns *)
(* that very array and push changes it in place, so two records that share *)
(* a descriptor, or two descriptors that share an array, see each other's  *)
(* pushes.  descLayers and heap model exactly that.                        *)
(***************************************************************************)
NoLayers == 0

\* layer.ts:93 layers.regions[region]: [kind |-> "undefined"], a plain object
\* with its own properties, or the function inherited from Object.prototype
RegionRuntimes(layersJson, rgn) ==
    IF rgn \in DOMAIN layersJson
    THEN [kind |-> "object", own |-> layersJson[rgn]]
    ELSE IF rgn \in ObjectPrototypeKeys
    THEN [kind |-> "function", own |-> <<>>]
    ELSE [kind |-> "undefined", own |-> <<>>]

\* layer.ts:104 regionRuntimes[runtime]; a function object inherits toString
\* from Function.prototype
RuntimeLayer(regionRuntimes, runtime) ==
    IF regionRuntimes.kind = "object" THEN GetProperty(regionRuntimes.own, runtime)
    ELSE IF runtime \in ObjectPrototypeKeys THEN FunctionPrototypeToString
    ELSE Undefined

\* layer.ts:115-121 getLayers: the array of the descriptor, or a new empty
\* array; the result is the heap (with the new array, if any) and the reference
getLayers(st, handler) ==
    IF st.descLayers[handler.handler] = NoLayers
    THEN [heap |-> Append(st.heap, <<>>), ref |-> Len(st.heap) + 1]
    ELSE [heap |-> st.heap, ref |-> st.descLayers[handler.handler]]

\* Faulty variant of setLayers: the list is not written back.
setLayersSkipped(st, handler, ref) == st

\* layer.ts:123-125 setLayers
setLayers(st, handler, ref) ==
    [st EXCEPT !.descLayers[handler.handler] = ref]

\* Faulty variant of PushIfNew: the membership test is missing.
PushAlways(currentLayers, layerARN) == Append(currentLayers, layerARN)

\* Faulty variant of PushIfNew: only the last element is compared.
PushIfNotLast(currentLayers, layerARN) ==
    IF Len(currentLayers) > 0 /\ currentLayers[Len(currentLayers)] = layerARN
    THEN currentLayers
    ELSE Append(currentLayers, layerARN)

\* layer.ts:107-109: push unless new Set(currentLayers).has(layerARN)
PushIfNew(currentLayers, layerARN) ==
    IF layerARN \in Range(currentLayers) THEN currentLayers
    ELSE Append(currentLayers, layerARN)

\* layer.ts:99-111: the body of the for loop, for one handler
LoopBody(st, handler, regionRuntimes) ==
    IF handler.type = UNSUPPORTED THEN st
    ELSE LET runtime == handler.runtime
             layerARN == IF runtime # Undefined
                         THEN RuntimeLayer(regionRuntimes, runtime) ELSE Undefined
         IN  IF layerARN # Undefined
             THEN LET got == getLayers(st, handler)
                      pushed == [got.heap EXCEPT ![got.ref] = PushIfNew(@, layerARN)]
                  IN  setLayers([st EXCEPT !.heap = pushed], handler, got.ref)
             ELSE st

RECURSIVE Loop(_, _, _, _)
Loop(st, hs, i, regionRuntimes) ==
    IF i > Len(hs) THEN st
    ELSE Loop(LoopBody(st, hs[i], regionRuntimes), hs, i + 1, regionRuntimes)

\* layer.ts:92-113
applyLayers(rgn, hs, layersJson, st) ==
    LET regionRuntimes == RegionRuntimes(layersJson, rgn)
    IN  IF regionRuntimes.kind = "undefined" THEN st
        ELSE Loop(st, hs, 1, regionRuntimes)

\* the layers field of descriptor d as a value: absent, or the list it refers to
LayerList(dl, hp, d) ==
    IF dl[d] = NoLayers THEN [present |-> FALSE, list |-> <<>>]
    ELSE [present |-> TRUE, list |-> hp[dl[d]]]

LayerLists(dl, hp) == [d \in DOMAIN dl |-> LayerList(dl, hp, d)]

(***************************************************************************)
(* setEnvConfiguration, env.ts:42-64.                                      *)
(***************************************************************************)
apiKeyEnvVar == "DD_API_KEY"
apiKeyKMSEnvVar == "DD_KMS_API_KEY"
siteURLEnvVar == "DD_SITE"
logLevelEnvVar == "DD_LOG_LEVEL"
logForwardingEnvVar == "DD_FLUSH_TO_LOG"

\* Faulty variant of SetIfUndefined: the entry is overwritten.
SetAlways(env, key, value) == [env EXCEPT ![key] = value]

\* environment[key] === undefined ? value : environment[key], value itself
\* possibly undefined (an assignment of undefined leaves the entry undefined)
SetIfUndefined(env, key, value) ==
    IF env[key] = Undefined THEN [env EXCEPT ![key] = value] ELSE env

\* env.ts:42-64; cfg.apiKey and cfg.apiKMSKey are Undefined when not supplied
setEnvConfiguration(cfg, providerEnvironment) ==
    LET e0 == IF providerEnvironment.defined THEN providerEnvironment.vars
              ELSE [k \in DOMAIN providerEnvironment.vars |-> Undefined]
        e1 == IF cfg.apiKey # Undefined THEN SetIfUndefined(e0, apiKeyEnvVar, cfg.apiKey) ELSE e0
        e2 == IF cfg.apiKMSKey # Undefined
              THEN SetIfUndefined(e1, apiKeyKMSEnvVar, cfg.apiKMSKey) ELSE e1
        e3 == SetIfUndefined(e2, siteURLEnvVar, cfg.site)
        e4 == SetIfUndefined(e3, logLevelEnvVar, cfg.logLevel)
        e5 == SetIfUndefined(e4, logForwardingEnvVar, cfg.flushMetricsToLogs)
    IN  [defined |-> TRUE, vars |-> e5]

(***************************************************************************)
(* Inputs of findHandlers.                                                 *)
(***************************************************************************)
RefMH == <<"m", ".", "h">>                  \* "m.h"
RefM == <<"m">>                             \* "m", no method suffix
RefMEH == <<"m", ".", "e", ".", "h">>       \* "m.e.h"

FunctionDefinitions ==
    {[handler |-> h, runtime |-> "nodejs10.x"] : h \in {RefMH, RefM, RefMEH}}
    \cup {[handler |-> h, runtime |-> Undefined] : h \in {RefMH, RefM}}
    \cup {[handler |-> h, runtime |-> "python3.8"] : h \in {RefMH, RefM}}
    \cup {[handler |-> RefM, runtime |-> "go1.x"],
          [handler |-> RefMH, runtime |-> "toString"]}

\* Object.entries(funcs): the keys are distinct, here numbered in entries order
Entries(defs) ==
    [i \in 1..Len(defs) |->
        [name |-> i, handler |-> defs[i].handler, runtime |-> defs[i].runtime]]

PluginLists ==
    {[present |-> FALSE, list |-> <<>>],
     [present |-> TRUE, list |-> <<"serverless-plugin-datadog", "serverless-webpack">>],
     [present |-> TRUE, list |-> <<"serverless-webpack-x">>]}

DiskFiles ==
    {ProbePath(<<"m">>, ExtTs), ProbePath(<<"m">>, ExtEsJs), ProbePath(<<"m">>, ExtMjs),
     ProbePath(<<"m", ".", "e">>, ExtTs)}

(***************************************************************************)
(* Inputs of applyLayers.                                                  *)
(***************************************************************************)
HandlerShapes ==
    {[type |-> NODE, runtime |-> "nodejs10.x"],
     [type |-> PYTHON, runtime |-> "python2.7"],
     [type |-> UNSUPPORTED, runtime |-> "nodejs10.x"],
     [type |-> NODE_TS, runtime |-> Undefined],
     [type |-> NODE_ES6, runtime |-> "toString"]}

LayerTables ==
    {("us-east-1" :> (("nodejs10.x" :> "node:1") @@ ("python2.7" :> "node:2"))),
     ("us-east-1" :> ("nodejs10.x" :> "node:2")) @@ ("us-west-2" :> ("python2.7" :> "node:1"))}

Regions == {"us-east-1", "us-west-2", "toString"}

InitialLists ==
    {<<>>, <<"node:1">>, <<"node:1", "node:2">>, <<"node:2", "node:1">>, <<"node:1", "node:1">>}

\* the descriptors some record refers to
Used(hs) == {hs[i].handler : i \in 1..Len(hs)}

\* Records, descriptors and arrays up to renaming: record i refers to
\* descriptor i or to the descriptor of an earlier record; descriptor d has no
\* layers field, its own array d, or the array of an earlier descriptor.
HandlerLists(n) ==
    {hs \in [1..n -> [type : RuntimeType, runtime : {Undefined, "nodejs10.x", "python2.7", "toString"},
                      handler : 1..n]] :
        \A i \in 1..n :
            /\ [type |-> hs[i].type, runtime |-> hs[i].runtime] \in HandlerShapes
            /\ hs[i].handler \in {i} \cup {hs[j].handler : j \in 1..(i - 1)}}

DescLayerMaps(hs) ==
    {dl \in [1..Len(hs) -> 0..Len(hs)] :
        \A d \in 1..Len(hs) :
            IF d \in Used(hs)
            THEN dl[d] \in {NoLayers, d} \cup {dl[e] : e \in 1..(d - 1)}
            ELSE dl[d] = NoLayers}

Heaps(dl) ==
    {hp \in [1..Len(dl) -> InitialLists] :
        \A a \in 1..Len(dl) : a \notin Range(dl) => hp[a] = <<>>}

\* every record has a descriptor of its own, and every descriptor an array of its own
Unshared(hs, dl) ==
    /\ \A i, j \in 1..Len(hs) : i # j => hs[i].handler # hs[j].handler
    /\ \A d, e \in 1..Len(dl) : (d # e /\ dl[d] # NoLayers) => dl[d] # dl[e]

(***************************************************************************)
(* Inputs of setEnvConfiguration.                                          *)
(***************************************************************************)
EnvKeys == {apiKeyEnvVar, apiKeyKMSEnvVar, siteURLEnvVar, logLevelEnvVar,
            logForwardingEnvVar, "STAGE"}

\* flushMetricsToLogs is a boolean, written here as "true" / "false"
Configurations ==
    [apiKey : {Undefined, "key"}, apiKMSKey : {Undefined, "kms"},
     site : {"datadoghq.com", "datadoghq.eu"}, logLevel : {"info", "DEBUG"},
     flushMetricsToLogs : {"true", "false"}]

\* env.ts:35-40
defaultConfiguration ==
    [apiKey |-> Undefined, apiKMSKey |-> Undefined, site |-> "datadoghq.com",
     logLevel |-> "info", flushMetricsToLogs |-> "false"]

Environments ==
    {[defined |-> FALSE, vars |-> [k \in EnvKeys |-> Undefined]]}
    \cup {[defined |-> TRUE, vars |-> v] : v \in [EnvKeys -> {Undefined, "user"}]}

(***************************************************************************)
(* Initial states and actions.  Each specification exercises one exported  *)
(* function; the variables of the other two keep their idle values.        *)
(***************************************************************************)
FindIdle ==
    /\ functions = <<>>
    /\ plugins = [present |-> FALSE, list |-> <<>>]
    /\ defaultRuntime = Undefined
    /\ defaultNodeRuntime = Undefined
    /\ files = {}
    /\ found = <<>>
    /\ findCalled = FALSE

ApplyIdle ==
    /\ region = "us-east-1"
    /\ layers = <<>>
    /\ handlers = <<>>
    /\ descLayers = <<>>
    /\ heap = <<>>
    /\ old = <<>>
    /\ applied = 0

EnvIdle ==
    /\ environment = [defined |-> FALSE, vars |-> [k \in EnvKeys |-> Undefined]]
    /\ config = defaultConfiguration
    /\ envOld = environment
    /\ envCalled = FALSE

InitFind ==
    /\ functions \in {Entries(defs) : defs \in SeqsUpTo(FunctionDefinitions, MaxFuncs)}
    /\ plugins \in PluginLists
    /\ defaultRuntime \in {Undefined, "nodejs12.x"}
    /\ defaultNodeRuntime \in {Undefined, NODE, NODE_ES6, NODE_TS}
    /\ files \in SUBSET DiskFiles
    /\ found = <<>>
    /\ findCalled = FALSE
    /\ ApplyIdle
    /\ EnvIdle

InitApply ==
    /\ region \in Regions
    /\ layers \in LayerTables
    /\ \E n \in 1..MaxHandlers : handlers \in HandlerLists(n)
    /\ descLayers \in DescLayerMaps(handlers)
    /\ heap \in Heaps(descLayers)
    /\ old = LayerLists(descLayers, heap)
    /\ applied = 0
    /\ FindIdle
    /\ EnvIdle

\* as InitApply, with every record its own descriptor and array, and a
\* region name that is no inherited property name
InitApplyUnshared ==
    /\ InitApply
    /\ Unshared(handlers, descLayers)
    /\ region \notin ObjectPrototypeKeys

\* as InitApply, with region and runtime names that are no inherited property names
InitApplyOwnNames ==
    /\ InitApply
    /\ region \notin ObjectPrototypeKeys
    /\ \A i \in 1..Len(handlers) : handlers[i].runtime \notin ObjectPrototypeKeys

InitEnv ==
    /\ environment \in Environments
    /\ config = defaultConfiguration
    /\ envOld = environment
    /\ envCalled = FALSE
    /\ FindIdle
    /\ ApplyIdle

\* findHandlers(service, defaultRuntime, defaultNodeRuntime)
FindHandlers ==
    /\ found' = findHandlers(functions, plugins, files, defaultRuntime, defaultNodeRuntime)
    /\ findCalled' = TRUE
    /\ UNCHANGED <<functions, plugins, defaultRuntime, defaultNodeRuntime, files>>
    /\ UNCHANGED <<applyVars, envVars>>

\* applyLayers(region, handlers, layers), called again with the same arguments
ApplyLayers ==
    /\ applied < MaxCalls
    /\ LET st == applyLayers(region, handlers, layers,
                             [descLayers |-> descLayers, heap |-> heap])
       IN  /\ descLayers' = st.descLayers
           /\ heap' = st.heap
    /\ old' = LayerLists(descLayers, heap)
    /\ applied' = applied + 1
    /\ UNCHANGED <<region, layers, handlers>>
    /\ UNCHANGED <<findVars, envVars>>

\* setEnvConfiguration(config, service), with any configuration
SetEnvConfiguration ==
    /\ \E cfg \in Configurations :
        /\ config' = cfg
        /\ environment' = setEnvConfiguration(cfg, environment)
    /\ envOld' = environment
    /\ envCalled' = TRUE
    /\ UNCHANGED <<findVars, applyVars>>

NextFind == FindHandlers
NextApply == ApplyLayers
NextEnv == SetEnvConfiguration

SpecFind == InitFind /\ [][NextFind]_vars
SpecApply == InitApply /\ [][NextApply]_vars
SpecApplyUnshared == InitApplyUnshared /\ [][NextApply]_vars
SpecApplyOwnNames == InitApplyOwnNames /\ [][NextApply]_vars
SpecEnv == InitEnv /\ [][NextEnv]_vars

(***************************************************************************)
(* Vocabulary of the properties, stated without the operators above.       *)
(***************************************************************************)
\* the runtime names the table maps to the managed-native (nodejs) category
NodeRuntimeNames == {r \in DOMAIN runtimeLookup : runtimeLookup[r] = NODE}

\* the effective runtime name of function i: its own, else the default
EffectiveRuntime(i) ==
    IF functions[i].runtime # Undefined THEN functions[i].runtime ELSE defaultRuntime

HasDot(ref) == \E k \in 1..Len(ref) : ref[k] = "."

\* the module path of a handler reference: what precedes its last "."
ModulePath(ref) ==
    LET k == CHOOSE k \in 1..Len(ref) : ref[k] = "." /\ \A j \in (k + 1)..Len(ref) : ref[j] # "."
    IN  SubSeq(ref, 1, k - 1)

\* the positions of the records findHandlers emitted for function i
RecordsOf(i) == {j \in 1..Len(found) : found[j].name = functions[i].name}

IsNodeFunction(i) == EffectiveRuntime(i) \in NodeRuntimeNames

WellFormedNode(i) == IsNodeFunction(i) /\ HasDot(functions[i].handler)

OnDisk(i, ext) == (<<".", "/">> \o ModulePath(functions[i].handler) \o ext) \in files

NoDuplicates(list) == \A a, b \in 1..Len(list) : a # b => list[a] # list[b]

IsPrefix(a, b) == Len(a) <= Len(b) /\ SubSeq(b, 1, Len(a)) = a

Now(d) == LayerList(descLayers, heap, d)

\* the region has an entry in the layer table
RegionKnown == region \in DOMAIN layers

\* layers.regions[region][runtime] is a defined layer identifier for record i
HasLayerId(i) ==
    /\ RegionKnown
    /\ handlers[i].runtime # Undefined
    /\ handlers[i].runtime \in DOMAIN layers[region]

LayerIdOf(i) == layers[region][handlers[i].runtime]

\* what record i makes applyLayers push, if anything: the looked-up value
PushedBy(j) ==
    IF handlers[j].type = UNSUPPORTED \/ handlers[j].runtime = Undefined THEN Undefined
    ELSE RuntimeLayer(RegionRuntimes(layers, region), handlers[j].runtime)

\* records i and j write to the same array: same descriptor, or same layers array
SameArray(i, j) ==
    \/ handlers[i].handler = handlers[j].handler
    \/ /\ descLayers[handlers[i].handler] # NoLayers
       /\ descLayers[handlers[i].handler] = descLayers[handlers[j].handler]

\* no other record of the call pushes a different value onto record i's array
Alone(i) ==
    \A j \in 1..Len(handlers) :
        (j # i /\ SameArray(i, j)) => PushedBy(j) \in {Undefined, PushedBy(i)}

(***************************************************************************)
(* Properties of applyLayers.                                              *)
(***************************************************************************)
Descriptor(i) == handlers[i].handler

\* C1 as stated: after applyLayers returns, whatever layer lists the
\* descriptors started with, no descriptor's layer list holds the same
\* identifier twice.
C1_NoDuplicatesWhateverTheStart ==
    applied >= 1 =>
        \A i \in 1..Len(handlers) : NoDuplicates(Now(Descriptor(i)).list)

\* C1 amended: applyLayers introduces no duplicate: a descriptor whose layer
\* list held no identifier twice before the call holds none twice after it.
C1_NoDuplicatesIntroduced ==
    applied >= 1 =>
        \A i \in 1..Len(handlers) :
            NoDuplicates(old[Descriptor(i)].list) => NoDuplicates(Now(Descriptor(i)).list)

\* a call appended to a non-empty duplicate-free list
C1_Witness ==
    /\ applied >= 1
    /\ \E i \in 1..Len(handlers) :
        /\ Len(old[Descriptor(i)].list) >= 1
        /\ NoDuplicates(old[Descriptor(i)].list)
        /\ Len(Now(Descriptor(i)).list) > Len(old[Descriptor(i)].list)

\* C2: applyLayers is idempotent: once it has been called, calling it again
\* with the same arguments leaves every descriptor's layer list (contents,
\* order, presence of the field) as it was.
C2_Idempotent ==
    [][applied >= 1 => LayerLists(descLayers', heap') = LayerLists(descLayers, heap)]_vars

\* a second call, after a first call that created a layers array and pushed
C2_Witness ==
    /\ applied >= 2
    /\ Len(heap) > Len(descLayers)
    /\ \E i \in 1..Len(handlers) : Len(Now(Descriptor(i)).list) >= 1

\* the cases in which C3 says a record's descriptor is left alone
LeftAloneCase(i) ==
    \/ ~RegionKnown
    \/ handlers[i].type = UNSUPPORTED
    \/ handlers[i].runtime = Undefined
    \/ (RegionKnown /\ handlers[i].runtime \notin DOMAIN layers[region])

\* C3: applyLayers leaves the layer list (or its absence) unchanged for every
\* record whose region has no entry in the table, whose category is
\* UNSUPPORTED, whose runtime name is undefined, or for whose runtime name
\* the region's entry has no layer identifier.
C3_LeftAlone ==
    applied >= 1 =>
        \A i \in 1..Len(handlers) :
            LeftAloneCase(i) => Now(Descriptor(i)) = old[Descriptor(i)]

\* the list C4 expects from the list before and the identifier L
Appended(before, L) ==
    [present |-> TRUE,
     list |-> IF ~before.present THEN <<L>>
              ELSE IF L \in Range(before.list) THEN before.list
              ELSE Append(before.list, L)]

Receives(i) == handlers[i].type # UNSUPPORTED /\ HasLayerId(i)

\* C4 as stated: for a record that is not UNSUPPORTED and has a layer
\* identifier L, the list becomes [L] if the field was absent, the previous
\* list followed by L if it did not contain L, and is unchanged otherwise.
C4_AppendOnly ==
    applied >= 1 =>
        \A i \in 1..Len(handlers) :
            Receives(i) => Now(Descriptor(i)) = Appended(old[Descriptor(i)], LayerIdOf(i))

\* C4 amended: for such a record the previous list stays a prefix of the new
\* list and L is in the new list; the new list is exactly the one C4 states
\* when no other record of the call that pushes a different value refers to
\* the same descriptor or the same layers array.
C4_AppendOnlyUnlessShared ==
    applied >= 1 =>
        \A i \in 1..Len(handlers) :
            Receives(i) =>
                /\ Now(Descriptor(i)).present
                /\ IsPrefix(old[Descriptor(i)].list, Now(Descriptor(i)).list)
                /\ LayerIdOf(i) \in Range(Now(Descriptor(i)).list)
                /\ Alone(i) => Now(Descriptor(i)) = Appended(old[Descriptor(i)], LayerIdOf(i))

\* a record received L on a non-empty list without it, and another on an absent field
C4_Witness ==
    /\ applied >= 1
    /\ \E i, j \in 1..Len(handlers) :
        /\ Receives(i) /\ Alone(i)
        /\ old[Descriptor(i)].present
        /\ Len(old[Descriptor(i)].list) >= 1
        /\ LayerIdOf(i) \notin Range(old[Descriptor(i)].list)
        /\ Receives(j) /\ Alone(j)
        /\ ~old[Descriptor(j)].present

(***************************************************************************)
(* Properties of findHandlers.                                             *)
(***************************************************************************)
\* C5: a function whose effective runtime name is undefined or is not a key
\* of runtimeLookup is emitted, once, with category UNSUPPORTED and its raw
\* effective runtime name.
C5_UnknownRuntimeUnsupported ==
    findCalled =>
        \A i \in 1..Len(functions) :
            (EffectiveRuntime(i) = Undefined \/ EffectiveRuntime(i) \notin DOMAIN runtimeLookup) =>
                /\ Cardinality(RecordsOf(i)) = 1
                /\ \A j \in RecordsOf(i) :
                    /\ found[j].type = UNSUPPORTED
                    /\ found[j].runtime = EffectiveRuntime(i)

WebpackListed ==
    plugins.present /\ \E k \in 1..Len(plugins.list) : plugins.list[k] = "serverless-webpack"

\* C6: with no forced dialect, a nodejs function with a well-formed handler
\* whose ./path.ts exists is emitted as NODE_TS, whatever ES6 indicator is
\* there too.
C6_TypeScriptWins ==
    (findCalled /\ defaultNodeRuntime = Undefined) =>
        \A i \in 1..Len(functions) :
            (WellFormedNode(i) /\ OnDisk(i, ExtTs)) =>
                /\ RecordsOf(i) # {}
                /\ \A j \in RecordsOf(i) : found[j].type = NODE_TS

\* a .ts file next to an .es.js file, with the webpack plugin listed
C6_Witness ==
    /\ findCalled
    /\ defaultNodeRuntime = Undefined
    /\ WebpackListed
    /\ \E i \in 1..Len(functions) :
        /\ WellFormedNode(i)
        /\ OnDisk(i, ExtTs)
        /\ OnDisk(i, ExtEsJs)
        /\ \E j \in RecordsOf(i) : found[j].type = NODE_TS

\* C7: with no forced dialect, a nodejs function with a well-formed handler
\* and no ./path.ts is emitted as NODE_ES6 exactly when ./path.es.js or
\* ./path.mjs exists or the plugin list holds "serverless-webpack", and as
\* NODE otherwise.
C7_Es6Indicators ==
    (findCalled /\ defaultNodeRuntime = Undefined) =>
        \A i \in 1..Len(functions) :
            (WellFormedNode(i) /\ ~OnDisk(i, ExtTs)) =>
                /\ RecordsOf(i) # {}
                /\ \A j \in RecordsOf(i) :
                    found[j].type =
                        IF OnDisk(i, ExtEsJs) \/ OnDisk(i, ExtMjs) \/ WebpackListed
                        THEN NODE_ES6 ELSE NODE

\* the plugin alone makes a function ES6, next to one made ES6 by its .mjs file
C7_Witness ==
    /\ findCalled
    /\ defaultNodeRuntime = Undefined
    /\ WebpackListed
    /\ \E i \in 1..Len(functions) :
        /\ WellFormedNode(i)
        /\ ~OnDisk(i, ExtTs) /\ ~OnDisk(i, ExtEsJs) /\ ~OnDisk(i, ExtMjs)
        /\ \E j \in RecordsOf(i) : found[j].type = NODE_ES6

\* the records findHandlers emits for the same service with no forced dialect
Unforced == findHandlers(functions, plugins, files, defaultRuntime, Undefined)

\* C8: with a forced dialect, every retained nodejs function is emitted with
\* exactly that dialect, whatever the files and plugins; a function that is
\* not nodejs is emitted as it is without the forced dialect (PYTHON stays
\* PYTHON, UNSUPPORTED stays UNSUPPORTED).
C8_ForcedDialect ==
    (findCalled /\ defaultNodeRuntime # Undefined) =>
        \A i \in 1..Len(functions) : \A j \in RecordsOf(i) :
            IF IsNodeFunction(i)
            THEN found[j].type = defaultNodeRuntime
            ELSE /\ found[j].type \notin {NODE, NODE_TS, NODE_ES6}
                 /\ \E k \in 1..Len(Unforced) : Unforced[k] = found[j]
                 /\ (EffectiveRuntime(i) \in DOMAIN runtimeLookup => found[j].type = PYTHON)

\* NODE is forced although a .ts file and the webpack plugin are there, next
\* to a python function
C8_Witness ==
    /\ findCalled
    /\ defaultNodeRuntime = NODE
    /\ WebpackListed
    /\ \E i, p \in 1..Len(functions) :
        /\ WellFormedNode(i)
        /\ OnDisk(i, ExtTs)
        /\ RecordsOf(i) # {}
        /\ EffectiveRuntime(p) = "python3.8"
        /\ RecordsOf(p) # {}

\* the functions C9 says are omitted: nodejs with no "." in the handler
Omitted(f) ==
    /\ (IF f.runtime # Undefined THEN f.runtime ELSE defaultRuntime) \in NodeRuntimeNames
    /\ ~HasDot(f.handler)

Retained == SelectSeq(functions, LAMBDA f : ~Omitted(f))

\* C9: the output is the input functions, in input order, one record each,
\* minus exactly the nodejs functions whose handler holds no ".".
C9_OrderAndOmission ==
    findCalled =>
        /\ Len(found) = Len(Retained)
        /\ \A j \in 1..Len(found) :
            /\ found[j].name = Retained[j].name
            /\ found[j].handler = [handler |-> Retained[j].handler, runtime |-> Retained[j].runtime]

\* a dot-less nodejs function is dropped in front of a dot-less python one
C9_Witness ==
    /\ findCalled
    /\ Len(functions) = 2
    /\ Omitted(functions[1])
    /\ functions[2].runtime = "python3.8" /\ ~HasDot(functions[2].handler)
    /\ Len(found) = 1
    /\ found[1].name = functions[2].name

(***************************************************************************)
(* Properties of setEnvConfiguration.                                      *)
(***************************************************************************)
\* the value of an entry before the most recent call
Before(k) == IF envOld.defined THEN envOld.vars[k] ELSE Undefined

\* C10: setEnvConfiguration only fills in missing values: an entry of the
\* five variables that was defined keeps its value, every other entry is
\* untouched, DD_SITE, DD_LOG_LEVEL and DD_FLUSH_TO_LOG are defined after a
\* call, and DD_API_KEY / DD_KMS_API_KEY get a value only from a
\* configuration that supplies apiKey / apiKMSKey.
C10_FillsMissingOnly ==
    envCalled =>
        /\ environment.defined
        /\ \A k \in EnvKeys : Before(k) # Undefined => environment.vars[k] = Before(k)
        /\ \A k \in EnvKeys \ {apiKeyEnvVar, apiKeyKMSEnvVar, siteURLEnvVar, logLevelEnvVar,
                               logForwardingEnvVar} : environment.vars[k] = Before(k)
        /\ environment.vars[siteURLEnvVar] # Undefined
        /\ environment.vars[logLevelEnvVar] # Undefined
        /\ environment.vars[logForwardingEnvVar] # Undefined
        /\ Before(siteURLEnvVar) = Undefined => environment.vars[siteURLEnvVar] = config.site
        /\ Before(logLevelEnvVar) = Undefined => environment.vars[logLevelEnvVar] = config.logLevel
        /\ Before(logForwardingEnvVar) = Undefined =>
                environment.vars[logForwardingEnvVar] = config.flushMetricsToLogs
        /\ Before(apiKeyEnvVar) = Undefined => environment.vars[apiKeyEnvVar] = config.apiKey
        /\ Before(apiKeyKMSEnvVar) = Undefined =>
                environment.vars[apiKeyKMSEnvVar] = config.apiKMSKey

\* a call kept a user's DD_SITE against another configured site, and filled
\* in the missing DD_API_KEY
C10_Witness ==
    /\ envCalled
    /\ Before(siteURLEnvVar) = "user"
    /\ Before(apiKeyEnvVar) = Undefined
    /\ config.apiKey = "key"
    /\ environment.vars[apiKeyEnvVar] = "key"
    /\ environment.vars[siteURLEnvVar] = "user"

====
